---- MODULE Spec2Model ----
(***************************************************************************)
(* Model of the RePair random-access tool (src/random_access.py): the two  *)
(* grammar loaders, the sequence loader, the symbol formatters, the        *)
(* random-access engine, the depth analyser and the main program that      *)
(* drives them; and of the loaders, formatters and main program of the     *)
(* visualizer (src/visualize.py) up to the labels of the sequence.         *)
(*                                                                         *)
(* A file is the sequence of its bytes.  A Python dict is a function whose *)
(* DOMAIN is its key set.  A grammar value is tagged the way Python tags   *)
(* it at run time: "bytes" (a terminal's one-byte slice of the character   *)
(* map) or "tuple" (a rule's pair of child ids).                           *)
(***************************************************************************)
EXTENDS Integers, Sequences, FiniteSets, TLC

(***************************************************************************)
(* Bounds of the model.                                                    *)
(***************************************************************************)
\* ids 0..MaxSymbols-1: alphabet size plus number of rules of an input grammar
MaxSymbols == 4
\* number of symbols of an input top-level sequence
MaxSeqLen == 2
\* restarts of the scan counted in one random_access call
MaxRescans == 3

(***************************************************************************)
(* Program constants.                                                      *)
(***************************************************************************)
INT_SIZE == 4
TPAIR_SIZE == INT_SIZE * 2

(***************************************************************************)
(* Python primitives.                                                      *)
(***************************************************************************)
Min(a, b) == IF a < b THEN a ELSE b
Max(a, b) == IF a > b THEN a ELSE b

\* an empty dict
EmptyDict == <<>>

\* d[k] = v
Put(d, k, v) == [x \in (DOMAIN d) \cup {k} |-> IF x = k THEN v ELSE d[x]]

\* bs[lo:hi], 0-based, half-open, clipped to the length as Python slices are
Slice(bs, lo, hi) == SubSeq(bs, lo + 1, Min(hi, Len(bs)))

\* f.read(n) at offset off, n >= 0: at most n bytes, fewer at end of file
Read(file, off, n) == Slice(file, off, off + n)

RECURSIVE LittleEndianValue(_)
LittleEndianValue(bs) ==
    IF bs = <<>> THEN 0 ELSE Head(bs) + 256 * LittleEndianValue(Tail(bs))

\* int.from_bytes(bs, 'little')
FromBytes(bs) == LittleEndianValue(bs)

\* grammar values
BytesValue(b) == [tag |-> "bytes", val |-> b]
TupleValue(s1, s2) == [tag |-> "tuple", val |-> <<s1, s2>>]

\* what a loader hands back: the error it raised, or the two dicts it returns
Raised(e) == [err |-> e, grammar |-> EmptyDict, lengths |-> EmptyDict]
Returned(g, l) == [err |-> "none", grammar |-> g, lengths |-> l]

(***************************************************************************)
(* Grammar loaders.                                                        *)
(***************************************************************************)
\* fault: the second child counted as a single symbol
ExpansionLengthOneRight(lengths, s1, s2) == lengths[s1] + 1

\* expansion_length = lengths[s1] + lengths[s2]
ExpansionLength(lengths, s1, s2) == lengths[s1] + lengths[s2]

\* fault: the two children stored in the wrong order
UnpackRuleSwapped(rule_chunk) ==
    <<FromBytes(Slice(rule_chunk, INT_SIZE, TPAIR_SIZE)),
      FromBytes(Slice(rule_chunk, 0, INT_SIZE))>>

\* s1, s2 unpacked from the 8-byte chunk of one rule
UnpackRule(rule_chunk) ==
    <<FromBytes(Slice(rule_chunk, 0, INT_SIZE)),
      FromBytes(Slice(rule_chunk, INT_SIZE, TPAIR_SIZE))>>

\* fault: a child without a length counts as one symbol instead of stopping
\* the load
LengthOrOne(lengths, s) == IF s \in DOMAIN lengths THEN lengths[s] ELSE 1

RECURSIVE LoadRulesLenient(_, _, _, _, _, _)
LoadRulesLenient(i, num_rules, alpha, rules_bytes, grammar, lengths) ==
    IF i >= num_rules THEN Returned(grammar, lengths)
    ELSE LET rule_id == alpha + i
             start_index == i * TPAIR_SIZE
             end_index == start_index + TPAIR_SIZE
             rule_chunk == Slice(rules_bytes, start_index, end_index)
             s == UnpackRule(rule_chunk)
         IN  LoadRulesLenient(i + 1, num_rules, alpha, rules_bytes,
                              Put(grammar, rule_id, TupleValue(s[1], s[2])),
                              Put(lengths, rule_id,
                                  LengthOrOne(lengths, s[1])
                                    + LengthOrOne(lengths, s[2])))

\* the loop over the rule records, shared by the two loaders: iteration i
\* and the ones after it
RECURSIVE LoadRules(_, _, _, _, _, _)
LoadRules(i, num_rules, alpha, rules_bytes, grammar, lengths) ==
    IF i >= num_rules THEN Returned(grammar, lengths)
    ELSE LET rule_id == alpha + i
             start_index == i * TPAIR_SIZE
             end_index == start_index + TPAIR_SIZE
             rule_chunk == Slice(rules_bytes, start_index, end_index)
             s == UnpackRule(rule_chunk)
             grammar2 == Put(grammar, rule_id, TupleValue(s[1], s[2]))
         IN  IF s[1] \notin DOMAIN lengths \/ s[2] \notin DOMAIN lengths
             THEN Raised("KeyError")
             ELSE LoadRules(i + 1, num_rules, alpha, rules_bytes, grammar2,
                            Put(lengths, rule_id,
                                ExpansionLength(lengths, s[1], s[2])))

\* fault: every terminal is given the first byte of the character map
TerminalBytesFirst(char_map, i) == Slice(char_map, 0, 1)

\* char_map[i:i+1]
TerminalBytes(char_map, i) == Slice(char_map, i, i + 1)

\* fault: the character map is not checked for truncation
CharMapTruncatedUnchecked(char_map, alpha) == FALSE

\* len(char_map) < alpha
CharMapTruncated(char_map, alpha) == Len(char_map) < alpha

\* len(alpha_bytes) < INT_SIZE
AlphaTruncated(alpha_bytes) == Len(alpha_bytes) < INT_SIZE

\* Layout A: header, character map, rule records
load_original_repair_grammar_with_lengths(exists, file) ==
    IF ~exists THEN Raised("FileNotFoundError")
    ELSE
    LET rules_size == Len(file)
        alpha_bytes == Read(file, 0, INT_SIZE)
        alpha == FromBytes(alpha_bytes)
        char_map == Read(file, INT_SIZE, alpha)
        num_rules == (rules_size - INT_SIZE - alpha) \div TPAIR_SIZE
        rules_bytes == Read(file, INT_SIZE + alpha, num_rules * TPAIR_SIZE)
        grammar0 == [i \in 0..(alpha - 1) |-> BytesValue(TerminalBytes(char_map, i))]
        lengths0 == [i \in 0..(alpha - 1) |-> 1]
    IN  IF AlphaTruncated(alpha_bytes) THEN Raised("IOError")
        ELSE IF CharMapTruncated(char_map, alpha) THEN Raised("IOError")
        ELSE IF Len(rules_bytes) < num_rules * TPAIR_SIZE THEN Raised("IOError")
        ELSE LoadRules(0, num_rules, alpha, rules_bytes, grammar0, lengths0)

\* Layout B: header, rule records; terminals are implicit
load_pfp_repair_grammar_with_lengths(exists, file) ==
    IF ~exists THEN Raised("FileNotFoundError")
    ELSE
    LET rules_size == Len(file)
        alpha_bytes == Read(file, 0, INT_SIZE)
        alpha == FromBytes(alpha_bytes)
        num_rules == (rules_size - INT_SIZE) \div TPAIR_SIZE
        rules_bytes == Read(file, INT_SIZE, num_rules * TPAIR_SIZE)
        lengths0 == [i \in 0..(alpha - 1) |-> 1]
    IN  IF AlphaTruncated(alpha_bytes) THEN Raised("IOError")
        ELSE IF Len(rules_bytes) < num_rules * TPAIR_SIZE THEN Raised("IOError")
        ELSE LoadRules(0, num_rules, alpha, rules_bytes, EmptyDict, lengths0)

(***************************************************************************)
(* Sequence loader.                                                        *)
(***************************************************************************)
\* the read loop: iteration k of sequence_size and the ones after it
RECURSIVE ReadIntegers(_, _, _, _)
ReadIntegers(file, k, sequence_size, compressed_sequence) ==
    IF k >= sequence_size THEN [err |-> "none", seq |-> compressed_sequence]
    ELSE LET int_bytes == Read(file, k * INT_SIZE, INT_SIZE)
         IN  IF Len(int_bytes) < INT_SIZE THEN [err |-> "IOError", seq |-> <<>>]
             ELSE ReadIntegers(file, k + 1, sequence_size,
                               Append(compressed_sequence, FromBytes(int_bytes)))

\* sequence_size = os.path.getsize(path) // INT_SIZE
SequenceSize(file) == Len(file) \div INT_SIZE

load_compressed_str(exists, file) ==
    IF ~exists THEN [err |-> "FileNotFoundError", seq |-> <<>>]
    ELSE ReadIntegers(file, 0, SequenceSize(file), <<>>)

(***************************************************************************)
(* Random-access engine.                                                   *)
(***************************************************************************)
\* symbol_id not in grammar or not isinstance(grammar[symbol_id], tuple)
IsTerminal(grammar, symbol_id) ==
    symbol_id \notin DOMAIN grammar \/ grammar[symbol_id].tag # "tuple"

\* fault: a position equal to the symbol's length is taken to lie inside it
ContainsPositionInclusive(position, symbol_len) == position <= symbol_len

\* position < symbol_len
ContainsPosition(position, symbol_len) == position < symbol_len

\* fault: the descent goes into the second child alone
DescendRight(grammar, symbol_id) == <<grammar[symbol_id].val[2]>>

\* current_sequence = grammar[symbol_id]
Descend(grammar, symbol_id) == grammar[symbol_id].val

\* fault: a symbol is passed over without its length being taken off
AdvanceNothing(position, symbol_len) == position

\* position -= symbol_len
Advance(position, symbol_len) == position - symbol_len

\* fault: with the for loop exhausted the function falls off its end and
\* returns None
RestartReturnsNone(st) == [st EXCEPT !.status = "returned", !.value = -1]

\* while True: the for loop starts again over current_sequence
Restart(st) == [st EXCEPT !.i = 1]

\* the locals of random_access on entry
RAEnter(top_level_sequence, position) ==
    [current_sequence |-> top_level_sequence, i |-> 1, position |-> position,
     status |-> "running", value |-> -1]

\* one iteration of the for loop (or, with the for loop exhausted, the
\* while loop starting it again)
RAStep(grammar, lengths, st) ==
    IF st.i > Len(st.current_sequence) THEN Restart(st)
    ELSE
    LET symbol_id == st.current_sequence[st.i] IN
    IF symbol_id \notin DOMAIN lengths THEN [st EXCEPT !.status = "KeyError"]
    ELSE
    LET symbol_len == lengths[symbol_id] IN
    IF ContainsPosition(st.position, symbol_len)
    THEN IF IsTerminal(grammar, symbol_id)
         THEN [st EXCEPT !.status = "returned", !.value = symbol_id]
         ELSE [st EXCEPT !.current_sequence = Descend(grammar, symbol_id), !.i = 1]
    ELSE [st EXCEPT !.position = Advance(st.position, symbol_len), !.i = st.i + 1]

\* the loop run from st until the function returns or raises
RECURSIVE RARun(_, _, _)
RARun(grammar, lengths, st) ==
    IF st.status # "running" THEN st ELSE RARun(grammar, lengths, RAStep(grammar, lengths, st))

random_access(top_level_sequence, grammar, lengths, position) ==
    RARun(grammar, lengths, RAEnter(top_level_sequence, position))

(***************************************************************************)
(* Depth analyser.  The two memo dicts are threaded through the calls:     *)
(* each call returns its value, the dict as it leaves it, and the keys it   *)
(* has assigned in it, in the order of the assignments.                    *)
(***************************************************************************)
\* fault: the memo is never consulted
InCacheNever(cache, symbol_id) == FALSE

\* symbol_id in depth_cache / symbol_id in leaf_depth_sum_cache
InCache(cache, symbol_id) == symbol_id \in DOMAIN cache

\* fault: only the first child's depth counts
DepthOfRuleLeft(d1, d2) == 1 + d1

\* depth = 1 + max(get_max_depth(s1), get_max_depth(s2))
DepthOfRule(d1, d2) == 1 + Max(d1, d2)

RECURSIVE get_max_depth(_, _, _)
get_max_depth(grammar, symbol_id, depth_cache) ==
    IF InCache(depth_cache, symbol_id)
    THEN [val |-> depth_cache[symbol_id], cache |-> depth_cache, writes |-> <<>>]
    ELSE IF IsTerminal(grammar, symbol_id)
    THEN [val |-> 0, cache |-> Put(depth_cache, symbol_id, 0),
          writes |-> <<symbol_id>>]
    ELSE LET s1 == grammar[symbol_id].val[1]
             s2 == grammar[symbol_id].val[2]
             r1 == get_max_depth(grammar, s1, depth_cache)
             r2 == get_max_depth(grammar, s2, r1.cache)
             depth == DepthOfRule(r1.val, r2.val)
         IN  [val |-> depth, cache |-> Put(r2.cache, symbol_id, depth),
              writes |-> r1.writes \o r2.writes \o <<symbol_id>>]

\* fault: the leaves of the second child are not pushed one level down
LeafSumOfRuleNoRight(sum1, sum2, len1, len2) == sum1 + sum2 + len1

\* total_sum = sum1 + sum2 + lengths[s1] + lengths[s2]
LeafSumOfRule(sum1, sum2, len1, len2) == sum1 + sum2 + len1 + len2

RECURSIVE get_leaf_depth_sum(_, _, _, _)
get_leaf_depth_sum(grammar, lengths, symbol_id, leaf_depth_sum_cache) ==
    IF InCache(leaf_depth_sum_cache, symbol_id)
    THEN [val |-> leaf_depth_sum_cache[symbol_id], cache |-> leaf_depth_sum_cache,
          writes |-> <<>>]
    ELSE IF IsTerminal(grammar, symbol_id)
    THEN [val |-> 0, cache |-> Put(leaf_depth_sum_cache, symbol_id, 0),
          writes |-> <<symbol_id>>]
    ELSE LET s1 == grammar[symbol_id].val[1]
             s2 == grammar[symbol_id].val[2]
             r1 == get_leaf_depth_sum(grammar, lengths, s1, leaf_depth_sum_cache)
             r2 == get_leaf_depth_sum(grammar, lengths, s2, r1.cache)
             total_sum == LeafSumOfRule(r1.val, r2.val, lengths[s1], lengths[s2])
         IN  [val |-> total_sum, cache |-> Put(r2.cache, symbol_id, total_sum),
              writes |-> r1.writes \o r2.writes \o <<symbol_id>>]

\* the loop over the forest: symbol k and the ones after it
RECURSIVE DepthLoop(_, _, _, _, _)
DepthLoop(grammar, lengths, symbols, k, acc) ==
    IF k > Len(symbols) THEN acc
    ELSE LET d == get_max_depth(grammar, symbols[k], acc.depth_cache)
             l == get_leaf_depth_sum(grammar, lengths, symbols[k],
                                     acc.leaf_depth_sum_cache)
         IN  DepthLoop(grammar, lengths, symbols, k + 1,
                 [max_overall_depth |-> Max(acc.max_overall_depth, d.val),
                  total_leaf_depth_sum |-> acc.total_leaf_depth_sum + l.val,
                  depth_cache |-> d.cache,
                  leaf_depth_sum_cache |-> l.cache,
                  depth_writes |-> acc.depth_writes \o d.writes,
                  leaf_writes |-> acc.leaf_writes \o l.writes])

calculate_grammar_depth_stats(grammar, top_level_sequence, lengths) ==
    DepthLoop(grammar, lengths, top_level_sequence, 1,
        [max_overall_depth |-> 0, total_leaf_depth_sum |-> 0,
         depth_cache |-> EmptyDict, leaf_depth_sum_cache |-> EmptyDict,
         depth_writes |-> <<>>, leaf_writes |-> <<>>])

\* uncompressed_size += lengths[compressed_sequence[i]], from i on
RECURSIVE SumLengths(_, _, _, _)
SumLengths(lengths, compressed_sequence, i, uncompressed_size) ==
    IF i > Len(compressed_sequence) THEN [err |-> "none", size |-> uncompressed_size]
    ELSE IF compressed_sequence[i] \notin DOMAIN lengths
    THEN [err |-> "KeyError", size |-> 0]
    ELSE SumLengths(lengths, compressed_sequence, i + 1,
                    uncompressed_size + lengths[compressed_sequence[i]])

(***************************************************************************)
(* Symbol formatters.  A string is the sequence of its code points.        *)
(***************************************************************************)
\* the decimal digits of n >= 0
RECURSIVE Digits(_)
Digits(n) == IF n < 10 THEN <<48 + n>> ELSE Digits(n \div 10) \o <<48 + (n % 10)>>

\* str(n)
Str(n) == IF n < 0 THEN <<45>> \o Digits(0 - n) ELSE Digits(n)

\* str.isprintable() of the character with code point c below 256
IsPrintable(c) == c \in 32..126 \/ c \in 161..172 \/ c \in 174..255

\* f"'{char}'"
Quoted(char) == <<39>> \o char \o <<39>>

\* f"byte({symbol_id})"
ByteOf(symbol_id) == <<98, 121, 116, 101, 40>> \o Str(symbol_id) \o <<41>>

\* f"?{symbol_id}?"
Unknown(symbol_id) == <<63>> \o Str(symbol_id) \o <<63>>

\* grammar.get(symbol_id): None for a missing key
NoneValue == [tag |-> "None", val |-> <<>>]
Get(grammar, symbol_id) ==
    IF symbol_id \in DOMAIN grammar THEN grammar[symbol_id] ELSE NoneValue

\* symbol_value.decode('ascii') raises UnicodeDecodeError on a byte above 127
DecodeFails(bs) == \E k \in 1..Len(bs) : bs[k] >= 128

format_original_repair_symbol(symbol_id, grammar) ==
    LET symbol_value == Get(grammar, symbol_id) IN
    IF symbol_value.tag = "bytes"
    THEN IF DecodeFails(symbol_value.val) THEN ByteOf(symbol_id)
         ELSE LET char == symbol_value.val IN
              IF \A k \in 1..Len(char) : IsPrintable(char[k])
              THEN Quoted(char)
              ELSE ByteOf(symbol_id)
    ELSE IF symbol_value.tag = "tuple" THEN Str(symbol_id)
    ELSE Unknown(symbol_id)

\* ids below 256 are taken for characters before the table is looked at
format_pfp_repair_symbol(symbol_id, grammar) ==
    IF symbol_id < 256
    THEN LET char == <<symbol_id>> IN
         IF IsPrintable(symbol_id) THEN Quoted(char) ELSE ByteOf(symbol_id)
    ELSE LET symbol_value == Get(grammar, symbol_id) IN
         IF symbol_value.tag = "tuple" THEN Str(symbol_id)
         ELSE Unknown(symbol_id)

(***************************************************************************)
(* State of one run of the program.                                        *)
(***************************************************************************)
VARIABLES
    program,             \* args.program
    rules_exists,        \* whether a file is at args.rules
    rules_file,          \* its bytes
    sequence_exists,     \* whether a file is at args.sequence
    sequence_file,       \* its bytes
    pc,                  \* where the main program is
    error,               \* the exception that ended the run, or "none"
    parsed_grammar,      \* the symbol table
    lengths,             \* the length table
    compressed_sequence, \* the top-level sequence
    uncompressed_size,   \* the sum of its symbols' lengths
    stats,               \* the locals of calculate_grammar_depth_stats as it returns
    random_pos,          \* the position of the last query, -1 before the first
    ra_char,             \* the symbol the last query returned
    layout_a,            \* Layout A's answer kept for the layout comparison
    formatted,           \* the formatted symbols last written
    ra_frame,            \* the locals of a random_access call stepped through
    ra_steps             \* what the loop of that call has done so far

vars == <<program, rules_exists, rules_file, sequence_exists, sequence_file, pc,
          error, parsed_grammar, lengths, compressed_sequence,
          uncompressed_size, stats, random_pos, ra_char, layout_a, formatted,
          ra_frame, ra_steps>>

calls == <<ra_frame, ra_steps>>

inputs == <<program, rules_exists, rules_file, sequence_exists, sequence_file>>

NoStats ==
    [ran |-> FALSE, max_overall_depth |-> 0, total_leaf_depth_sum |-> 0,
     depth_cache |-> EmptyDict, leaf_depth_sum_cache |-> EmptyDict,
     depth_writes |-> <<>>, leaf_writes |-> <<>>]

NoLayoutA == [kept |-> FALSE, text |-> <<>>]

\* no call is being stepped through
NoFrame ==
    [current_sequence |-> <<>>, i |-> 1, position |-> 0, status |-> "idle",
     value |-> -1]
NoSteps == [skipped |-> 0, descents |-> 0, exhausted |-> 0, skipped_top |-> 0]

LayoutAPrograms == {"repair", "rlz-repair"}
LayoutBPrograms == {"bigrepair", "rerepair"}

(***************************************************************************)
(* Input files of the bounded runs.  Files are written the way the         *)
(* compressors write them, then cut short at every length.                 *)
(***************************************************************************)
U32LE(n) ==
    <<n % 256, (n \div 256) % 256, (n \div 65536) % 256, (n \div 16777216) % 256>>

RECURSIVE EncodeInts(_)
EncodeInts(ns) == IF ns = <<>> THEN <<>> ELSE U32LE(Head(ns)) \o EncodeInts(Tail(ns))

RECURSIVE EncodeRecords(_)
EncodeRecords(recs) ==
    IF recs = <<>> THEN <<>>
    ELSE U32LE(Head(recs)[1]) \o U32LE(Head(recs)[2]) \o EncodeRecords(Tail(recs))

\* the byte of terminal i in the character maps: letters and control bytes
CharByte(i) == IF i % 2 = 0 THEN 97 + i ELSE 9 + i

CharMapOf(alpha) == [i \in 1..alpha |-> CharByte(i - 1)]

RulesFileA(alpha, recs) == U32LE(alpha) \o CharMapOf(alpha) \o EncodeRecords(recs)
RulesFileB(alpha, recs) == U32LE(alpha) \o EncodeRecords(recs)
RulesFileFor(prog, alpha, recs) ==
    IF prog \in LayoutAPrograms THEN RulesFileA(alpha, recs) ELSE RulesFileB(alpha, recs)

\* record lists in which every child precedes its rule
RECURSIVE ValidLists(_, _)
ValidLists(alpha, n) ==
    IF n = 0 THEN {<<>>}
    ELSE {Append(l, <<a, b>>) : l \in ValidLists(alpha, n - 1),
                                 a \in 0..(alpha + n - 2), b \in 0..(alpha + n - 2)}

\* an id that needs two bytes
WideId == 256 + 2

\* child ids of a last record: in the table, the rule itself, later, or absent
ChildIds == (0..MaxSymbols) \cup {WideId}

\* record lists whose last record names any children
StressLists(alpha, n) ==
    {Append(l, <<a, b>>) : l \in ValidLists(alpha, n - 1), a \in ChildIds, b \in ChildIds}

Shapes == {sh \in (0..MaxSymbols) \X (0..MaxSymbols) : sh[1] + sh[2] <= MaxSymbols}

RECURSIVE SeqsUpTo(_, _)
SeqsUpTo(S, n) ==
    IF n = 0 THEN {<<>>}
    ELSE SeqsUpTo(S, n - 1) \cup
         {Append(q, x) : q \in {r \in SeqsUpTo(S, n - 1) : Len(r) = n - 1}, x \in S}

Input(prog, re, rf, se, sf) ==
    [program |-> prog, rules_exists |-> re, rules_file |-> rf,
     sequence_exists |-> se, sequence_file |-> sf]

\* the grammar of the depth example: rule 2 -> (0, 1), rule 3 -> (2, 0)
ExampleRulesFile(prog) == RulesFileFor(prog, 2, <<<<0, 1>>, <<2, 0>>>>)

(***************************************************************************)
(* The main program.                                                       *)
(***************************************************************************)
InitWith(inp) ==
    /\ program = inp.program
    /\ rules_exists = inp.rules_exists
    /\ rules_file = inp.rules_file
    /\ sequence_exists = inp.sequence_exists
    /\ sequence_file = inp.sequence_file
    /\ pc = "start"
    /\ error = "none"
    /\ parsed_grammar = EmptyDict
    /\ lengths = EmptyDict
    /\ compressed_sequence = <<>>
    /\ uncompressed_size = 0
    /\ stats = NoStats
    /\ random_pos = -1
    /\ ra_char = -1
    /\ layout_a = NoLayoutA
    /\ formatted = <<>>
    /\ ra_frame = NoFrame
    /\ ra_steps = NoSteps

\* rules files of every length, well formed or not, with a one-symbol sequence
LoaderInputsOf(progs) ==
    \E prog \in progs, sh \in {x \in Shapes : x[2] >= 1} :
      \E l \in StressLists(sh[1], sh[2]) :
        \E n \in 0..Len(RulesFileFor(prog, sh[1], l)) :
          InitWith(Input(prog, TRUE, SubSeq(RulesFileFor(prog, sh[1], l), 1, n),
                         TRUE, EncodeInts(<<0>>)))

\* every well-formed grammar, under sequences of its first and last symbol
EngineInputsOf(progs) ==
    \E prog \in progs, sh \in Shapes :
      \E l \in ValidLists(sh[1], sh[2]),
         q \in SeqsUpTo({0, sh[1] + sh[2] - 1} \cap Nat, MaxSeqLen) :
        InitWith(Input(prog, TRUE, RulesFileFor(prog, sh[1], l), TRUE, EncodeInts(q)))

\* sequence files of every length over every id, under the example grammar
SequenceInputsOf(progs) ==
    \E prog \in progs, q \in SeqsUpTo(0..MaxSymbols, MaxSeqLen) :
      \E n \in 0..Len(EncodeInts(q)) :
        InitWith(Input(prog, TRUE, ExampleRulesFile(prog),
                       TRUE, SubSeq(EncodeInts(q), 1, n)))

\* the other program names, and the files that are not there
OtherInputs ==
    \E prog \in {"repair", "rlz-repair", "bigrepair", "rerepair", "gzip"},
       re \in BOOLEAN, se \in BOOLEAN :
      InitWith(Input(prog, re, ExampleRulesFile(prog),
                     se, EncodeInts(<<3, 0>>)))

LoaderInputs == LoaderInputsOf({"repair", "bigrepair"})

SequenceInputs == SequenceInputsOf({"repair", "bigrepair"})

EngineInputs == EngineInputsOf({"repair", "bigrepair"})

Init == LoaderInputs \/ EngineInputs \/ SequenceInputs \/ OtherInputs

\* an exception leaves main
Fail(e) ==
    /\ pc' = "failed"
    /\ error' = e

\* the loader main picks for args.program
LoaderFor(prog, exists, file) ==
    IF prog = "repair" \/ prog = "rlz-repair"
    THEN load_original_repair_grammar_with_lengths(exists, file)
    ELSE IF prog = "bigrepair" \/ prog = "rerepair"
    THEN load_pfp_repair_grammar_with_lengths(exists, file)
    ELSE Raised("ValueError")

LoadGrammar ==
    /\ pc = "start"
    /\ LET r == LoaderFor(program, rules_exists, rules_file) IN
       IF r.err = "none"
       THEN /\ parsed_grammar' = r.grammar
            /\ lengths' = r.lengths
            /\ pc' = "grammar_loaded"
            /\ UNCHANGED error
       ELSE /\ Fail(r.err)
            /\ UNCHANGED <<parsed_grammar, lengths>>
    /\ UNCHANGED <<inputs, calls, formatted, compressed_sequence, uncompressed_size, stats,
                   random_pos, ra_char, layout_a>>

LoadSequence ==
    /\ pc = "grammar_loaded"
    /\ LET r == load_compressed_str(sequence_exists, sequence_file) IN
       IF r.err = "none"
       THEN /\ compressed_sequence' = r.seq
            /\ pc' = "sequence_loaded"
            /\ UNCHANGED error
       ELSE /\ Fail(r.err)
            /\ UNCHANGED compressed_sequence
    /\ UNCHANGED <<inputs, calls, formatted, parsed_grammar, lengths, uncompressed_size, stats,
                   random_pos, ra_char, layout_a>>

ComputeSize ==
    /\ pc = "sequence_loaded"
    /\ LET r == SumLengths(lengths, compressed_sequence, 1, 0) IN
       IF r.err = "none"
       THEN /\ uncompressed_size' = r.size
            /\ pc' = "sized"
            /\ UNCHANGED error
       ELSE /\ Fail(r.err)
            /\ UNCHANGED uncompressed_size
    /\ UNCHANGED <<inputs, calls, formatted, parsed_grammar, lengths, compressed_sequence, stats,
                   random_pos, ra_char, layout_a>>

\* args.depth is set
DepthStats ==
    /\ pc = "sized"
    /\ stats' = [ran |-> TRUE] @@
                calculate_grammar_depth_stats(parsed_grammar, compressed_sequence, lengths)
    /\ pc' = "analysed"
    /\ UNCHANGED <<inputs, calls, formatted, error, parsed_grammar, lengths, compressed_sequence,
                   uncompressed_size, random_pos, ra_char, layout_a>>

\* args.depth is not set
SkipDepthStats ==
    /\ pc = "sized"
    /\ pc' = "analysed"
    /\ UNCHANGED <<inputs, calls, formatted, error, parsed_grammar, lengths, compressed_sequence,
                   uncompressed_size, stats, random_pos, ra_char, layout_a>>

\* args.no_ra is set
SkipBenchmark ==
    /\ pc = "analysed"
    /\ pc' = "done"
    /\ stats' = NoStats
    /\ UNCHANGED <<inputs, calls, formatted, error, parsed_grammar, lengths, compressed_sequence,
                   uncompressed_size, random_pos, ra_char, layout_a>>

\* args.no_ra is not set: the output file is opened
BeginBenchmark ==
    /\ pc = "analysed"
    /\ pc' = "benchmark"
    /\ stats' = NoStats
    /\ UNCHANGED <<inputs, calls, formatted, error, parsed_grammar, lengths, compressed_sequence,
                   uncompressed_size, random_pos, ra_char, layout_a>>

\* the value field of the line a query writes
OutputValue(prog, ra, grammar) ==
    IF prog \in {"repair", "rlz-repair"}
    THEN format_original_repair_symbol(ra, grammar)
    ELSE format_pfp_repair_symbol(ra, grammar)

\* one iteration of the benchmark loop, up to the line it writes:
\* random.randint(0, uncompressed_size - 1) raises ValueError on an empty range
Query ==
    /\ pc = "benchmark"
    /\ IF uncompressed_size - 1 < 0
       THEN /\ Fail("ValueError")
            /\ UNCHANGED <<random_pos, ra_char, formatted>>
       ELSE \E p \in 0..(uncompressed_size - 1) :
              LET r == random_access(compressed_sequence, parsed_grammar, lengths, p) IN
              IF r.status = "returned"
              THEN /\ random_pos' = p
                   /\ ra_char' = r.value
                   /\ formatted' = <<OutputValue(program, r.value, parsed_grammar)>>
                   /\ pc' = "answered"
                   /\ UNCHANGED error
              ELSE /\ Fail(r.status)
                   /\ UNCHANGED <<random_pos, ra_char, formatted>>
    /\ UNCHANGED <<inputs, calls, parsed_grammar, lengths, compressed_sequence,
                   uncompressed_size, stats, layout_a>>

\* the loop goes round: random_pos and ra_char are dead until the next query
\* assigns them
NextIteration ==
    /\ pc = "answered"
    /\ pc' = "benchmark"
    /\ random_pos' = -1
    /\ ra_char' = -1
    /\ formatted' = <<>>
    /\ UNCHANGED <<inputs, calls, error, parsed_grammar, lengths, compressed_sequence,
                   uncompressed_size, stats, layout_a>>

\* range(args.iteration) is exhausted
EndBenchmark ==
    /\ pc = "benchmark"
    /\ pc' = "done"
    /\ UNCHANGED <<inputs, calls, formatted, error, parsed_grammar, lengths, compressed_sequence,
                   uncompressed_size, stats, random_pos, ra_char, layout_a>>

Next ==
    \/ LoadGrammar
    \/ LoadSequence
    \/ ComputeSize
    \/ DepthStats
    \/ SkipDepthStats
    \/ SkipBenchmark
    \/ BeginBenchmark
    \/ Query
    \/ NextIteration
    \/ EndBenchmark

Spec == Init /\ [][Next]_vars

(***************************************************************************)
(* Layout comparison.  A grammar and text written under Layout A are run   *)
(* through the program, written again under Layout B as bigrepair writes   *)
(* them (256 implicit terminals, each terminal named by its byte, rule k   *)
(* numbered 256 + k), and run through the program a second time.           *)
(***************************************************************************)
\* the u32le field at byte offset off of a file
FieldAt(file, off) ==
    file[off + 1] + 256 * file[off + 2] + 65536 * file[off + 3]
        + 16777216 * file[off + 4]

\* the Layout B name of the symbol a Layout A file calls s
LayoutBId(file, s) ==
    LET alpha == FieldAt(file, 0) IN
    IF s < alpha THEN file[4 + s + 1] ELSE 256 + (s - alpha)

\* the Layout B rules file of the grammar in the Layout A file
LayoutBRulesFile(file) ==
    LET alpha == FieldAt(file, 0)
        n == (Len(file) - 4 - alpha) \div 8
    IN  U32LE(256) \o
        EncodeInts([j \in 1..(2 * n) |->
                      LayoutBId(file, FieldAt(file, 4 + alpha + 4 * (j - 1)))])

\* the sequence file of the same text under Layout B
LayoutBSequenceFile(file, seqfile) ==
    EncodeInts([j \in 1..(Len(seqfile) \div 4) |->
                  LayoutBId(file, FieldAt(seqfile, 4 * (j - 1)))])

\* the bytes the Layout A tables decode, position by position
LayoutAText ==
    [k \in 1..uncompressed_size |->
       parsed_grammar[random_access(compressed_sequence, parsed_grammar,
                                    lengths, k - 1).value].val[1]]

\* the Layout A run has reached its benchmark: its text is kept and the run
\* starts again on the Layout B files
Relayout ==
    /\ pc = "benchmark"
    /\ program \in LayoutAPrograms
    /\ ~layout_a.kept
    /\ layout_a' = [kept |-> TRUE, text |-> LayoutAText]
    /\ program' = "bigrepair"
    /\ rules_file' = LayoutBRulesFile(rules_file)
    /\ sequence_file' = LayoutBSequenceFile(rules_file, sequence_file)
    /\ pc' = "start"
    /\ parsed_grammar' = EmptyDict
    /\ lengths' = EmptyDict
    /\ compressed_sequence' = <<>>
    /\ uncompressed_size' = 0
    /\ UNCHANGED <<rules_exists, sequence_exists, error, stats, random_pos, ra_char,
                   calls, formatted>>

InitLayout == EngineInputsOf({"repair"})

NextLayout ==
    \/ LoadGrammar
    \/ LoadSequence
    \/ ComputeSize
    \/ SkipDepthStats
    \/ BeginBenchmark
    \/ Query
    \/ NextIteration
    \/ Relayout

SpecLayout == InitLayout /\ [][NextLayout]_vars

(***************************************************************************)
(* The visualizer (src/visualize.py) reads the same files.  Its loaders    *)
(* build the symbol table alone, without a length table; its main program  *)
(* selects among them by args.program as the random-access tool does.      *)
(***************************************************************************)
\* the loop over the rule records of the visualizer's loaders: iteration i
\* and the ones after it
RECURSIVE VisualizeRules(_, _, _, _, _)
VisualizeRules(i, num_rules, alpha, rules_bytes, grammar) ==
    IF i >= num_rules THEN Returned(grammar, EmptyDict)
    ELSE LET rule_id == alpha + i
             start_index == i * TPAIR_SIZE
             end_index == start_index + TPAIR_SIZE
             rule_chunk == Slice(rules_bytes, start_index, end_index)
             s == UnpackRule(rule_chunk)
         IN  VisualizeRules(i + 1, num_rules, alpha, rules_bytes,
                            Put(grammar, rule_id, TupleValue(s[1], s[2])))

\* Layout A; os.path.getsize raises FileNotFoundError on a missing file
load_rlz_repair_grammar(exists, file) ==
    IF ~exists THEN Raised("FileNotFoundError")
    ELSE
    LET rules_size == Len(file)
        alpha_bytes == Read(file, 0, INT_SIZE)
        alpha == FromBytes(alpha_bytes)
        char_map == Read(file, INT_SIZE, alpha)
        num_rules == (rules_size - INT_SIZE - alpha) \div TPAIR_SIZE
        rules_bytes == Read(file, INT_SIZE + alpha, num_rules * TPAIR_SIZE)
        grammar0 == [i \in 0..(alpha - 1) |-> BytesValue(TerminalBytes(char_map, i))]
    IN  IF AlphaTruncated(alpha_bytes) THEN Raised("IOError")
        ELSE IF CharMapTruncated(char_map, alpha) THEN Raised("IOError")
        ELSE IF Len(rules_bytes) < num_rules * TPAIR_SIZE THEN Raised("IOError")
        ELSE VisualizeRules(0, num_rules, alpha, rules_bytes, grammar0)

\* Layout B
load_bigrepair_grammar(exists, file) ==
    IF ~exists THEN Raised("FileNotFoundError")
    ELSE
    LET rules_size == Len(file)
        alpha_bytes == Read(file, 0, INT_SIZE)
        alpha == FromBytes(alpha_bytes)
        num_rules == (rules_size - INT_SIZE) \div TPAIR_SIZE
        rules_bytes == Read(file, INT_SIZE, num_rules * TPAIR_SIZE)
    IN  IF AlphaTruncated(alpha_bytes) THEN Raised("IOError")
        ELSE IF Len(rules_bytes) < num_rules * TPAIR_SIZE THEN Raised("IOError")
        ELSE VisualizeRules(0, num_rules, alpha, rules_bytes, EmptyDict)

\* the loader the visualizer's main picks for args.program: the name
\* load_rerepair_grammar it calls for "rerepair" is defined nowhere, so the
\* call raises NameError
VisualizeLoaderFor(prog, exists, file) ==
    IF prog = "rlz-repair" THEN load_rlz_repair_grammar(exists, file)
    ELSE IF prog = "bigrepair" THEN load_bigrepair_grammar(exists, file)
    ELSE IF prog = "rerepair" THEN Raised("NameError")
    ELSE Raised("ValueError")

\* the visualizer's copies of the two formatters
format_rlz_repair_symbol(symbol_id, grammar) ==
    LET symbol_value == Get(grammar, symbol_id) IN
    IF symbol_value.tag = "bytes"
    THEN IF DecodeFails(symbol_value.val) THEN ByteOf(symbol_id)
         ELSE LET char == symbol_value.val IN
              IF \A k \in 1..Len(char) : IsPrintable(char[k])
              THEN Quoted(char)
              ELSE ByteOf(symbol_id)
    ELSE IF symbol_value.tag = "tuple" THEN Str(symbol_id)
    ELSE Unknown(symbol_id)

format_bigrepair_symbol(symbol_id, grammar) ==
    IF symbol_id < 256
    THEN LET char == <<symbol_id>> IN
         IF IsPrintable(symbol_id) THEN Quoted(char) ELSE ByteOf(symbol_id)
    ELSE LET symbol_value == Get(grammar, symbol_id) IN
         IF symbol_value.tag = "tuple" THEN Str(symbol_id)
         ELSE Unknown(symbol_id)

\* the label main makes for one symbol of the sequence; a run that got this
\* far has "rlz-repair" or "bigrepair" for args.program
SequenceLabel(prog, s, grammar) ==
    IF prog = "rlz-repair" THEN format_rlz_repair_symbol(s, grammar)
    ELSE format_bigrepair_symbol(s, grammar)

VisualizeLoadGrammar ==
    /\ pc = "start"
    /\ LET r == VisualizeLoaderFor(program, rules_exists, rules_file) IN
       IF r.err = "none"
       THEN /\ parsed_grammar' = r.grammar
            /\ pc' = "grammar_loaded"
            /\ UNCHANGED error
       ELSE /\ Fail(r.err)
            /\ UNCHANGED parsed_grammar
    /\ UNCHANGED <<inputs, calls, formatted, lengths, compressed_sequence, uncompressed_size, stats,
                   random_pos, ra_char, layout_a>>

\* args.no_image is set: sys.exit()
SkipImage ==
    /\ pc = "sequence_loaded"
    /\ pc' = "done"
    /\ UNCHANGED <<inputs, calls, formatted, error, parsed_grammar, lengths,
                   compressed_sequence, uncompressed_size, stats, random_pos,
                   ra_char, layout_a>>

\* sequence_labels: the label of the root node is made of them
LabelSequence ==
    /\ pc = "sequence_loaded"
    /\ formatted' = [k \in 1..Len(compressed_sequence) |->
                       SequenceLabel(program, compressed_sequence[k], parsed_grammar)]
    /\ pc' = "labelled"
    /\ UNCHANGED <<inputs, calls, error, parsed_grammar, lengths,
                   compressed_sequence, uncompressed_size, stats, random_pos,
                   ra_char, layout_a>>

\* rules files of every length for the two loaders, sequences over every id,
\* and every program name
InitVisualize ==
    \/ LoaderInputsOf({"rlz-repair", "bigrepair"})
    \/ SequenceInputsOf({"rlz-repair", "bigrepair"})
    \/ OtherInputs

\* the grammar, then the sequence (load_compressed_str is the same function
\* in both tools), then the labels; printing and drawing are left out
NextVisualize ==
    \/ VisualizeLoadGrammar
    \/ LoadSequence
    \/ SkipImage
    \/ LabelSequence

SpecVisualize == InitVisualize /\ [][NextVisualize]_vars

(***************************************************************************)
(* Calls on loaded tables.  Once the tables are loaded and the size is     *)
(* known, random_access is called with any position, in range or not, and  *)
(* stepped through one loop iteration at a time;                           *)
(* calculate_grammar_depth_stats is called at any moment, between two      *)
(* iterations of a query included, and any number of times.                *)
(***************************************************************************)
\* positions a caller may pass: below 0, in range, and past the end by more
\* than the whole text
Positions == (0 - 1)..(uncompressed_size + MaxSeqLen)

\* fault: the assignment writes through to the list the caller passed
AssignThrough(top_level_sequence, current_sequence) == current_sequence

\* the caller's list once current_sequence has been assigned: the local name
\* is rebound, the list it named before is left as it was
Rebind(top_level_sequence, current_sequence) == top_level_sequence

\* what one iteration adds to the record of the loop: the for loop ran out
\* (counted up to MaxRescans), a symbol was passed over, or a rule was entered
CountStep(st, after, steps) ==
    IF st.i > Len(st.current_sequence)
    THEN [steps EXCEPT !.exhausted = Min(@ + 1, MaxRescans)]
    ELSE IF after.status # "running" THEN steps
    ELSE IF after.i = st.i + 1
    THEN [steps EXCEPT !.skipped = @ + 1,
                       !.skipped_top = IF steps.descents = 0 THEN @ + 1 ELSE @]
    ELSE [steps EXCEPT !.descents = @ + 1]

\* random_access(compressed_sequence, parsed_grammar, lengths, p) is entered
Call ==
    /\ pc = "sized"
    /\ \E p \in Positions :
         /\ random_pos' = p
         /\ ra_frame' = RAEnter(compressed_sequence, p)
    /\ ra_steps' = NoSteps
    /\ pc' = "locating"
    /\ UNCHANGED <<inputs, error, parsed_grammar, lengths, compressed_sequence,
                   uncompressed_size, stats, ra_char, layout_a, formatted>>

\* one iteration of its loop
Step ==
    /\ pc = "locating"
    /\ ra_frame.status = "running"
    /\ LET after == RAStep(parsed_grammar, lengths, ra_frame) IN
         /\ ra_frame' = after
         /\ ra_steps' = CountStep(ra_frame, after, ra_steps)
         /\ compressed_sequence' = Rebind(compressed_sequence, after.current_sequence)
         /\ IF after.status = "returned"
            THEN /\ ra_char' = after.value
                 /\ pc' = "located"
                 /\ UNCHANGED error
            ELSE IF after.status = "running"
            THEN UNCHANGED <<pc, ra_char, error>>
            ELSE /\ Fail(after.status)
                 /\ UNCHANGED ra_char
    /\ UNCHANGED <<inputs, parsed_grammar, lengths, uncompressed_size, stats,
                   random_pos, layout_a, formatted>>

\* the caller drops the answer
Forget ==
    /\ pc = "located"
    /\ pc' = "sized"
    /\ random_pos' = -1
    /\ ra_char' = -1
    /\ ra_frame' = NoFrame
    /\ ra_steps' = NoSteps
    /\ UNCHANGED <<inputs, error, parsed_grammar, lengths, compressed_sequence,
                   uncompressed_size, stats, layout_a, formatted>>

\* calculate_grammar_depth_stats(parsed_grammar, compressed_sequence, lengths)
\* is called and returns
Analyse ==
    /\ pc \in {"sized", "locating", "located"}
    /\ stats' = [ran |-> TRUE] @@
                calculate_grammar_depth_stats(parsed_grammar, compressed_sequence, lengths)
    /\ UNCHANGED <<inputs, calls, formatted, pc, error, parsed_grammar, lengths,
                   compressed_sequence, uncompressed_size, random_pos, ra_char,
                   layout_a>>

\* every well-formed grammar, under sequences of its last symbol; the engine
\* and the analyser are handed the tables alone, so one layout is enough
InitCalls ==
    \E prog \in {"repair"}, sh \in Shapes :
      \E l \in ValidLists(sh[1], sh[2]),
         q \in SeqsUpTo({sh[1] + sh[2] - 1} \cap Nat, MaxSeqLen) :
        InitWith(Input(prog, TRUE, RulesFileFor(prog, sh[1], l), TRUE, EncodeInts(q)))

NextCalls ==
    \/ LoadGrammar
    \/ LoadSequence
    \/ ComputeSize
    \/ Call
    \/ Step
    \/ Forget
    \/ Analyse

SpecCalls == InitCalls /\ [][NextCalls]_vars

\* queries alone; a call that has been entered keeps running: the
\* interpreter goes on to the next iteration of the loop for as long as
\* there is one
NextQueries ==
    \/ LoadGrammar
    \/ LoadSequence
    \/ ComputeSize
    \/ Call
    \/ Step
    \/ Forget

SpecQueries == InitCalls /\ [][NextQueries]_vars /\ WF_vars(Step)

(***************************************************************************)
(* What the claims are stated against: the file formats and the derivation *)
(* trees, written down independently of the code above.                    *)
(***************************************************************************)
\* the alphabet size a rules file declares
DeclaredAlpha == FieldAt(rules_file, 0)

LayoutA == program \in LayoutAPrograms
LayoutB == program \in LayoutBPrograms

\* where the rule records start, and how many bytes follow
RecordsOffset == IF LayoutA THEN 4 + DeclaredAlpha ELSE 4
RecordRegionLength == Len(rules_file) - RecordsOffset

IsRule(g, s) == s \in DOMAIN g /\ g[s].tag = "tuple"
Child1(g, s) == g[s].val[1]
Child2(g, s) == g[s].val[2]
RuleIds(g) == {s \in DOMAIN g : g[s].tag = "tuple"}

\* naive recursive substitution
RECURSIVE Expand(_, _)
Expand(g, s) ==
    IF IsRule(g, s) THEN Expand(g, Child1(g, s)) \o Expand(g, Child2(g, s))
    ELSE <<s>>

RECURSIVE ExpandAll(_, _)
ExpandAll(g, q) ==
    IF q = <<>> THEN <<>> ELSE Expand(g, Head(q)) \o ExpandAll(g, Tail(q))

RECURSIVE Leftmost(_, _)
Leftmost(g, s) == IF IsRule(g, s) THEN Leftmost(g, Child1(g, s)) ELSE s

RECURSIVE Rightmost(_, _)
Rightmost(g, s) == IF IsRule(g, s) THEN Rightmost(g, Child2(g, s)) ELSE s

\* the depths below s of the leaves of s's derivation tree, left to right
RECURSIVE LeafDepths(_, _)
LeafDepths(g, s) ==
    IF IsRule(g, s)
    THEN LET below == LeafDepths(g, Child1(g, s)) \o LeafDepths(g, Child2(g, s))
         IN  [k \in 1..Len(below) |-> below[k] + 1]
    ELSE <<0>>

RECURSIVE SumOf(_)
SumOf(ns) == IF ns = <<>> THEN 0 ELSE Head(ns) + SumOf(Tail(ns))

RECURSIVE MaxOf(_)
MaxOf(ns) == IF ns = <<>> THEN 0 ELSE Max(Head(ns), MaxOf(Tail(ns)))

Height(g, s) == MaxOf(LeafDepths(g, s))

Answered == pc = "answered"
Analysed == pc = "analysed" /\ stats.ran

(***************************************************************************)
(* Claims.                                                                 *)
(***************************************************************************)
\* C1: round trip.  Whenever a query has been answered, the position asked
\* lies in 0..uncompressed_size-1, the full expansion of the top-level
\* sequence by recursive substitution has uncompressed_size symbols, and the
\* symbol random_access returned is the one at that position of the expansion.
C1_RoundTrip ==
    Answered =>
        LET text == ExpandAll(parsed_grammar, compressed_sequence) IN
        /\ random_pos \in 0..(uncompressed_size - 1)
        /\ Len(text) = uncompressed_size
        /\ ra_char = text[random_pos + 1]

\* a query answered from inside the second top-level symbol, two levels down
C1_Witness ==
    /\ Answered
    /\ Len(compressed_sequence) = 2
    /\ random_pos > lengths[compressed_sequence[1]]
    /\ Height(parsed_grammar, compressed_sequence[2]) >= 2
    /\ ra_char # Leftmost(parsed_grammar, compressed_sequence[2])

\* C2: length consistency.  Once a loader has returned, every terminal id has
\* length 1, every rule's length is the sum of its children's lengths, the
\* length table has an entry for exactly the terminals and the rules, and once
\* main has summed the lengths over the top-level sequence the sum is the
\* number of symbols of the sequence's full expansion.
C2_LengthConsistency ==
    /\ pc = "grammar_loaded" =>
         /\ \A s \in 0..(DeclaredAlpha - 1) : s \in DOMAIN lengths /\ lengths[s] = 1
         /\ \A r \in RuleIds(parsed_grammar) :
              /\ r \in DOMAIN lengths
              /\ Child1(parsed_grammar, r) \in DOMAIN lengths
              /\ Child2(parsed_grammar, r) \in DOMAIN lengths
              /\ lengths[r] = lengths[Child1(parsed_grammar, r)]
                                + lengths[Child2(parsed_grammar, r)]
         /\ DOMAIN lengths = (0..(DeclaredAlpha - 1)) \cup RuleIds(parsed_grammar)
    /\ pc = "sized" =>
         uncompressed_size = Len(ExpandAll(parsed_grammar, compressed_sequence))

\* a sized run whose sequence holds a rule of length 3 or more and a second symbol
C2_Witness ==
    /\ pc = "sized"
    /\ Len(compressed_sequence) = 2
    /\ lengths[compressed_sequence[1]] >= 3
    /\ uncompressed_size >= 4

\* C3: malformed rule region.  A loader returns a grammar only when the
\* record region of the rules file is a whole number of 8-byte records.
C3_RegionWholeRecords ==
    pc = "grammar_loaded" => RecordRegionLength % 8 = 0

\* C4: sequence loader truncation.  load_compressed_str returns a sequence
\* only when the file is a whole number of 4-byte integers, and then the
\* sequence has fileSize/4 entries, the k-th being the k-th integer of the file.
C4_SequenceWholeIntegers ==
    pc = "sequence_loaded" =>
        /\ Len(sequence_file) % 4 = 0
        /\ Len(compressed_sequence) * 4 = Len(sequence_file)
        /\ \A k \in 1..Len(compressed_sequence) :
             compressed_sequence[k] = FieldAt(sequence_file, 4 * (k - 1))

\* C5: boundary.  A query at position 0 returns the leftmost terminal of the
\* first top-level symbol, and a query at position uncompressed_size-1 the
\* rightmost terminal of the last top-level symbol.
C5_Boundary ==
    Answered =>
        /\ random_pos = 0 =>
             ra_char = Leftmost(parsed_grammar, compressed_sequence[1])
        /\ random_pos = uncompressed_size - 1 =>
             ra_char = Rightmost(parsed_grammar,
                                 compressed_sequence[Len(compressed_sequence)])

\* the last position answered, in a rule that is the second top-level symbol
\* and whose two ends differ
C5_Witness ==
    /\ Answered
    /\ random_pos = uncompressed_size - 1
    /\ Len(compressed_sequence) = 2
    /\ IsRule(parsed_grammar, compressed_sequence[2])
    /\ Leftmost(parsed_grammar, compressed_sequence[2])
         # Rightmost(parsed_grammar, compressed_sequence[2])

\* C6: layout equivalence.  When the grammar and text of a Layout A run are
\* run again under Layout B, every query the Layout B run answers returns, as
\* its id, the byte that the Layout A tables give for the same position (the
\* character-map byte of the id random_access returns there), and the two
\* runs agree on the length of the text.
C6_LayoutEquivalence ==
    (layout_a.kept /\ Answered) =>
        /\ uncompressed_size = Len(layout_a.text)
        /\ ra_char = layout_a.text[random_pos + 1]

\* a Layout B answer, inside a rule, for a text that holds two different bytes
C6_Witness ==
    /\ layout_a.kept
    /\ Answered
    /\ random_pos >= 2
    /\ \E k \in 1..Len(layout_a.text) : layout_a.text[k] # layout_a.text[1]
    /\ \E k \in 1..Len(compressed_sequence) : compressed_sequence[k] >= 256

\* C7: max depth.  In the analyser's memo, a terminal has depth 0 and a rule
\* one more than the larger of its children's depths; each memoised depth is
\* the height of the symbol's derivation tree; and the maximum reported is
\* the largest height among the top-level symbols, 0 when there is none.
C7_MaxDepth ==
    Analysed =>
        /\ \A k \in 1..Len(compressed_sequence) :
             compressed_sequence[k] \in DOMAIN stats.depth_cache
        /\ \A s \in DOMAIN stats.depth_cache :
             /\ stats.depth_cache[s] = Height(parsed_grammar, s)
             /\ ~IsRule(parsed_grammar, s) => stats.depth_cache[s] = 0
             /\ IsRule(parsed_grammar, s) =>
                  /\ Child1(parsed_grammar, s) \in DOMAIN stats.depth_cache
                  /\ Child2(parsed_grammar, s) \in DOMAIN stats.depth_cache
                  /\ stats.depth_cache[s] =
                       1 + Max(stats.depth_cache[Child1(parsed_grammar, s)],
                               stats.depth_cache[Child2(parsed_grammar, s)])
        /\ stats.max_overall_depth =
             MaxOf([k \in 1..Len(compressed_sequence) |->
                      Height(parsed_grammar, compressed_sequence[k])])

\* an analysis of two top-level symbols of different heights, the first being
\* a rule whose second child is the deeper one
C7_Witness ==
    /\ Analysed
    /\ Len(compressed_sequence) = 2
    /\ stats.max_overall_depth >= 2
    /\ IsRule(parsed_grammar, compressed_sequence[1])
    /\ Height(parsed_grammar, Child2(parsed_grammar, compressed_sequence[1]))
         > Height(parsed_grammar, Child1(parsed_grammar, compressed_sequence[1]))
    /\ Height(parsed_grammar, compressed_sequence[2])
         < Height(parsed_grammar, compressed_sequence[1])

\* the grammar of the worked example: rule1 -> (B, C), rule2 -> (rule1, A),
\* and the sequence [rule2]
DepthExample ==
    /\ Len(compressed_sequence) = 1
    /\ LET rule2 == compressed_sequence[1] IN
       /\ IsRule(parsed_grammar, rule2)
       /\ ~IsRule(parsed_grammar, Child2(parsed_grammar, rule2))
       /\ LET rule1 == Child1(parsed_grammar, rule2) IN
          /\ IsRule(parsed_grammar, rule1)
          /\ ~IsRule(parsed_grammar, Child1(parsed_grammar, rule1))
          /\ ~IsRule(parsed_grammar, Child2(parsed_grammar, rule1))

\* C8: leaf depth sum.  In the analyser's memo, a terminal has sum 0 and a
\* rule the sums of its two children plus their two lengths; each memoised
\* sum is the sum of the depths below the symbol of the leaves of its
\* derivation tree; the total is the sum over the top-level symbols; and the
\* worked example gives 5 over 3 leaves.
C8_LeafDepthSum ==
    Analysed =>
        /\ \A k \in 1..Len(compressed_sequence) :
             compressed_sequence[k] \in DOMAIN stats.leaf_depth_sum_cache
        /\ \A s \in DOMAIN stats.leaf_depth_sum_cache :
             /\ stats.leaf_depth_sum_cache[s] = SumOf(LeafDepths(parsed_grammar, s))
             /\ ~IsRule(parsed_grammar, s) => stats.leaf_depth_sum_cache[s] = 0
             /\ IsRule(parsed_grammar, s) =>
                  /\ Child1(parsed_grammar, s) \in DOMAIN stats.leaf_depth_sum_cache
                  /\ Child2(parsed_grammar, s) \in DOMAIN stats.leaf_depth_sum_cache
                  /\ stats.leaf_depth_sum_cache[s] =
                       stats.leaf_depth_sum_cache[Child1(parsed_grammar, s)]
                         + stats.leaf_depth_sum_cache[Child2(parsed_grammar, s)]
                         + lengths[Child1(parsed_grammar, s)]
                         + lengths[Child2(parsed_grammar, s)]
        /\ stats.total_leaf_depth_sum =
             SumOf([k \in 1..Len(compressed_sequence) |->
                      SumOf(LeafDepths(parsed_grammar, compressed_sequence[k]))])
        /\ DepthExample =>
             stats.total_leaf_depth_sum = 5 /\ uncompressed_size = 3

\* the worked example, analysed
C8_Witness == Analysed /\ DepthExample

\* C9: symbol table layout.  After a successful load the ids below the
\* declared alphabet size are the terminals (under Layout A each mapped to its
\* byte of the character map, under Layout B left out of the table), and the
\* rules are exactly the ids alphabetSize + k for k from 0 below the number of
\* whole records, (fileSize - 4 - alphabetSize) div 8 under Layout A and
\* (fileSize - 4) div 8 under Layout B, the k-th record's two little-endian
\* fields being rule alphabetSize + k's first and second child.
C9_SymbolTableLayout ==
    pc = "grammar_loaded" =>
        LET alpha == DeclaredAlpha
            n == IF LayoutA THEN (Len(rules_file) - 4 - alpha) \div 8
                 ELSE (Len(rules_file) - 4) \div 8
        IN  /\ \A t \in 0..(alpha - 1) :
                 /\ t \in DOMAIN lengths
                 /\ LayoutA => /\ t \in DOMAIN parsed_grammar
                               /\ parsed_grammar[t] = BytesValue(<<rules_file[4 + t + 1]>>)
                 /\ LayoutB => t \notin DOMAIN parsed_grammar
            /\ RuleIds(parsed_grammar) = alpha..(alpha + n - 1)
            /\ DOMAIN parsed_grammar \subseteq 0..(alpha + n - 1)
            /\ \A k \in 0..(n - 1) :
                 parsed_grammar[alpha + k].val =
                     <<FieldAt(rules_file, RecordsOffset + 8 * k),
                       FieldAt(rules_file, RecordsOffset + 8 * k + 4)>>

\* a loaded table of two rules, the second with two different children
C9_Witness ==
    /\ pc = "grammar_loaded"
    /\ Cardinality(RuleIds(parsed_grammar)) >= 2
    /\ \E r \in RuleIds(parsed_grammar) :
         /\ r - 1 \in RuleIds(parsed_grammar)
         /\ Child1(parsed_grammar, r) # Child2(parsed_grammar, r)

\* the rules file is missing, or too short for its header or (Layout A) for
\* its character map
HeaderUnreadable ==
    \/ ~rules_exists
    \/ Len(rules_file) < 4
    \/ LayoutA /\ Len(rules_file) - 4 < DeclaredAlpha

\* C10: loader header errors.  When the rules file is missing, or holds fewer
\* than 4 bytes, or (Layout A) fewer than alphabetSize bytes after the header,
\* the loader raises (FileNotFoundError for the missing file, IOError
\* otherwise) and main is left without a grammar and without a length table.
C10_HeaderErrors ==
    (pc # "start" /\ (LayoutA \/ LayoutB) /\ HeaderUnreadable) =>
        /\ pc = "failed"
        /\ error = (IF rules_exists THEN "IOError" ELSE "FileNotFoundError")
        /\ parsed_grammar = EmptyDict
        /\ lengths = EmptyDict

\* a Layout A load that failed on a character map cut short
C10_Witness ==
    /\ pc = "failed"
    /\ LayoutA
    /\ rules_exists
    /\ Len(rules_file) > 4
    /\ Len(rules_file) - 4 < DeclaredAlpha

\* C11: invalid configuration.  The step that leaves the start of main either
\* ends the run with the configuration error (ValueError), whatever files are
\* or are not there and with every table still empty, when args.program is
\* none of repair, rlz-repair, bigrepair, rerepair; or, when it is one of
\* them, is the work of that layout's loader on the rules file: the loader
\* returns a table of the layout's shape (the declared terminals as bytes
\* entries under Layout A, no bytes entry under Layout B), or raises one of
\* its own errors, FileNotFoundError exactly when the file is missing.  A run
\* with an unrecognized program never holds a sequence or a query result.
C11_Configuration ==
    /\ [][pc = "start" =>
            IF program \notin LayoutAPrograms \cup LayoutBPrograms
            THEN /\ pc' = "failed"
                 /\ error' = "ValueError"
                 /\ parsed_grammar' = EmptyDict
                 /\ lengths' = EmptyDict
            ELSE \/ /\ pc' = "grammar_loaded"
                    /\ rules_exists
                    /\ IF LayoutA
                       THEN \A i \in 0..(DeclaredAlpha - 1) :
                              /\ i \in DOMAIN parsed_grammar'
                              /\ parsed_grammar'[i].tag = "bytes"
                       ELSE \A i \in DOMAIN parsed_grammar' :
                              parsed_grammar'[i].tag = "tuple"
                 \/ /\ pc' = "failed"
                    /\ error' \in {"FileNotFoundError", "IOError", "KeyError"}
                    /\ (error' = "FileNotFoundError") <=> ~rules_exists]_vars
    /\ [](program \notin LayoutAPrograms \cup LayoutBPrograms =>
            /\ compressed_sequence = <<>>
            /\ random_pos = -1
            /\ ra_char = -1)

\* the position of the call being stepped through is outside the text
OutOfRange == random_pos \notin 0..(uncompressed_size - 1)
InRange == random_pos \in 0..(uncompressed_size - 1)

\* C12: out-of-range position.  A random_access call whose position is
\* negative or at least uncompressed_size never returns a symbol to its
\* caller.
C12_OutOfRangeFails ==
    (pc \in {"locating", "located"} /\ OutOfRange) => ra_frame.status # "returned"

\* the top-level symbol whose expansion holds position p, counting from
\* symbol k, and the offset of p inside it
RECURSIVE Locate(_, _, _, _)
Locate(g, q, k, p) ==
    LET n == Len(Expand(g, q[k])) IN
    IF p < n THEN [index |-> k, offset |-> p] ELSE Locate(g, q, k + 1, p - n)

Target == Locate(parsed_grammar, compressed_sequence, 1, random_pos)

\* the depth of the leaf at the position asked, in the tree of its symbol
TargetDepth ==
    LeafDepths(parsed_grammar, compressed_sequence[Target.index])[Target.offset + 1]

\* C13: bounded termination.  A random_access call on a loaded (acyclic)
\* grammar with a position in range returns; it never raises and never runs
\* off the end of the sequence it scans; it passes over at most the top-level symbols
\* before the one holding the position, and exactly those once it has entered
\* a rule or returned; it enters at most as many rules as the leaf at the
\* position is deep, passing over at most one child per rule entered; when it
\* has returned, the rules entered are exactly the depth of that leaf, which
\* is at most get_max_depth of the top-level symbol.  Every iteration that
\* does not return passes over one symbol or enters one rule, so the call
\* returns within (symbols before) + 2 * (leaf depth) + 1 iterations.
C13_BoundedTermination ==
    /\ []((ra_frame.status # "idle" /\ InRange) =>
            /\ ra_frame.status \in {"running", "returned"}
            /\ pc \in {"locating", "located"}
            /\ ra_steps.exhausted = 0
            /\ ra_steps.skipped_top <= Target.index - 1
            /\ ra_steps.descents <= TargetDepth
            /\ ra_steps.skipped - ra_steps.skipped_top <= ra_steps.descents
            /\ (ra_steps.descents > 0 \/ pc = "located") =>
                   ra_steps.skipped_top = Target.index - 1
            /\ pc = "located" =>
                   /\ ra_steps.descents = TargetDepth
                   /\ TargetDepth <=
                        get_max_depth(parsed_grammar,
                                      compressed_sequence[Target.index],
                                      EmptyDict).val)
    /\ [][(pc = "locating" /\ InRange /\ ra_frame' # ra_frame) =>
            \/ pc' = "located"
            \/ /\ pc' = "locating"
               /\ ra_steps'.skipped + ra_steps'.descents
                     = ra_steps.skipped + ra_steps.descents + 1]_vars
    /\ (pc = "locating" /\ InRange) ~> (pc = "located")

\* a call has returned from the second top-level symbol, two rules down,
\* having passed over a first child on the way
C13_Witness ==
    /\ pc = "located"
    /\ InRange
    /\ ra_steps.skipped_top = 1
    /\ ra_steps.descents >= 2
    /\ ra_steps.skipped > ra_steps.skipped_top

\* the text a first load of the input files decodes
FreshText ==
    ExpandAll(LoaderFor(program, rules_exists, rules_file).grammar,
              load_compressed_str(sequence_exists, sequence_file).seq)

\* C14: read-only sharing.  Once the tables are loaded and sized, no step of
\* a random_access call and no calculate_grammar_depth_stats call, in any
\* order and with analyses running between the iterations of a query,
\* changes the symbol table, the length table or the top-level sequence; and
\* whatever calls came before, a query in range returns the symbol that
\* stands at its position in the text of the files as first loaded.
C14_ReadOnly ==
    /\ [][(pc \in {"sized", "locating", "located"}) =>
            (UNCHANGED <<parsed_grammar, lengths, compressed_sequence>>)]_vars
    /\ []((pc = "located" /\ InRange) => ra_char = FreshText[random_pos + 1])

\* a query two rules deep has returned with an analysis made before it or
\* between its iterations
C14_Witness ==
    /\ pc = "located"
    /\ InRange
    /\ stats.ran
    /\ ra_steps.descents >= 2
    /\ Len(compressed_sequence) = 2

\* the two recursions of the analyser without their memo
RECURSIVE PlainDepth(_, _)
PlainDepth(g, s) ==
    IF IsRule(g, s)
    THEN 1 + Max(PlainDepth(g, Child1(g, s)), PlainDepth(g, Child2(g, s)))
    ELSE 0

RECURSIVE PlainLeafDepthSum(_, _)
PlainLeafDepthSum(g, s) ==
    IF IsRule(g, s)
    THEN PlainLeafDepthSum(g, Child1(g, s)) + PlainLeafDepthSum(g, Child2(g, s))
         + Len(Expand(g, Child1(g, s))) + Len(Expand(g, Child2(g, s)))
    ELSE 0

NoRepeat(ws) == \A a, b \in 1..Len(ws) : a # b => ws[a] # ws[b]
Written(ws) == {ws[k] : k \in 1..Len(ws)}

\* C15: memo tables.  When a calculate_grammar_depth_stats call has returned,
\* no key was assigned twice in depth_cache or in leaf_depth_sum_cache during
\* the call; every entry of either dict was assigned during this call (the
\* dicts started empty); each depth_cache entry is the depth and each
\* leaf_depth_sum_cache entry the leaf depth sum that the recursion without
\* memo gives for its key, so neither dict holds a value of the other; and
\* a further call on the same tables leaves the same results and dicts.
C15_MemoTables ==
    /\ [](stats.ran =>
            /\ NoRepeat(stats.depth_writes)
            /\ NoRepeat(stats.leaf_writes)
            /\ Written(stats.depth_writes) = DOMAIN stats.depth_cache
            /\ Written(stats.leaf_writes) = DOMAIN stats.leaf_depth_sum_cache
            /\ \A s \in DOMAIN stats.depth_cache :
                  stats.depth_cache[s] = PlainDepth(parsed_grammar, s)
            /\ \A s \in DOMAIN stats.leaf_depth_sum_cache :
                  stats.leaf_depth_sum_cache[s]
                    = PlainLeafDepthSum(parsed_grammar, s))
    /\ [][stats.ran => stats' = stats]_vars

\* an analysis has returned over two top-level symbols that share rules and
\* terminals, with a rule whose depth and leaf depth sum differ
C15_Witness ==
    /\ stats.ran
    /\ Len(compressed_sequence) = 2
    /\ \E s \in RuleIds(parsed_grammar) :
         /\ s \in DOMAIN stats.depth_cache
         /\ Child1(parsed_grammar, s) = Child2(parsed_grammar, s)
         /\ IsRule(parsed_grammar, Child1(parsed_grammar, s))
         /\ stats.depth_cache[s] # stats.leaf_depth_sum_cache[s]

\* the ids behind the formatted symbols: the answer of the query in the
\* random-access tool, the top-level sequence in the visualizer
FormattedIds == IF pc = "answered" THEN <<ra_char>> ELSE compressed_sequence

\* the character of terminal id under the layout of the run
TerminalChar(id) == IF LayoutA THEN rules_file[INT_SIZE + id + 1] ELSE id

\* C16: symbol formatting.  Every formatted symbol is: the bare decimal id if
\* the id has a rule in the table (below 256 or not); else, if the id is a
\* terminal of the declared alphabet, its character between quotes when that
\* character is printable (ASCII under Layout A) and byte(<id>) when not;
\* else ?<id>?.
C16_Formatting ==
    \A k \in 1..Len(formatted) :
      LET id == FormattedIds[k] IN
      IF IsRule(parsed_grammar, id) THEN formatted[k] = Str(id)
      ELSE IF id < DeclaredAlpha
      THEN IF /\ IsPrintable(TerminalChar(id))
              /\ (LayoutA => TerminalChar(id) < 128)
           THEN formatted[k] = <<39, TerminalChar(id), 39>>
           ELSE formatted[k] = <<98, 121, 116, 101, 40>> \o Str(id) \o <<41>>
      ELSE formatted[k] = <<63>> \o Str(id) \o <<63>>

\* the rules file has its header and, under Layout A, its character map
HeaderComplete ==
    /\ rules_exists
    /\ Len(rules_file) >= INT_SIZE
    /\ LayoutA => Len(rules_file) >= INT_SIZE + DeclaredAlpha

\* the complete records of the rules file, numbered from 0, and the j-th
\* child that record k names
RecordCount == RecordRegionLength \div TPAIR_SIZE
RecordChild(k, j) ==
    FieldAt(rules_file, RecordsOffset + TPAIR_SIZE * k + INT_SIZE * (j - 1))

\* record k names itself, a later rule or an id outside the table
NamesNoEarlierSymbol(k) ==
    \/ RecordChild(k, 1) >= DeclaredAlpha + k
    \/ RecordChild(k, 2) >= DeclaredAlpha + k

\* C17: acyclicity enforced by the loaders.  When a complete record of the
\* rules file names a child whose id is not below the record's own rule id,
\* the load ends in KeyError and no table is returned; and in every symbol
\* table a loader has returned, both children of every rule have ids below
\* the rule's id.
C17_Acyclicity ==
    /\ (/\ pc # "start"
        /\ LayoutA \/ LayoutB
        /\ HeaderComplete
        /\ \E k \in 0..(RecordCount - 1) : NamesNoEarlierSymbol(k)) =>
           /\ pc = "failed"
           /\ error = "KeyError"
           /\ parsed_grammar = EmptyDict
           /\ lengths = EmptyDict
    /\ \A r \in RuleIds(parsed_grammar) :
         /\ Child1(parsed_grammar, r) < r
         /\ Child2(parsed_grammar, r) < r

\* a load has failed on a rule that names itself, after a rule that loaded
C17_Witness ==
    /\ pc = "failed"
    /\ error = "KeyError"
    /\ HeaderComplete
    /\ \E k \in 1..(RecordCount - 1) :
         /\ RecordChild(k, 2) = DeclaredAlpha + k
         /\ RecordChild(k, 1) < DeclaredAlpha
         /\ ~NamesNoEarlierSymbol(k - 1)

\* the text the loaded tables decode
Text == ExpandAll(parsed_grammar, compressed_sequence)

\* C18: wrap-around.  On a loaded (acyclic) grammar with a text that is not
\* empty, a random_access call with any position returns; with a position at
\* or past the end of the text it has run off the top-level sequence and
\* started the scan again position div size times, and returns the symbol at
\* position mod size; with a negative position it returns the leftmost
\* terminal of the first top-level symbol, having passed over no symbol.
\* With an empty top-level sequence the call never returns and never raises:
\* it stays in its loop forever.
C18_WrapAround ==
    /\ []((pc = "located" /\ random_pos >= uncompressed_size) =>
            /\ uncompressed_size > 0
            /\ ra_char = Text[(random_pos % uncompressed_size) + 1]
            /\ ra_steps.exhausted
                 = Min(random_pos \div uncompressed_size, MaxRescans))
    /\ []((pc = "located" /\ random_pos < 0) =>
            /\ compressed_sequence # <<>>
            /\ ra_char = Leftmost(parsed_grammar, compressed_sequence[1])
            /\ ra_steps.skipped = 0
            /\ ra_steps.exhausted = 0)
    /\ []((ra_frame.status # "idle" /\ compressed_sequence = <<>>) =>
            /\ pc = "locating"
            /\ ra_frame.status = "running")
    /\ (pc = "locating" /\ compressed_sequence # <<>>) ~> (pc = "located")

\* a call past the end has returned from inside a rule after a second scan
C18_Witness ==
    /\ pc = "located"
    /\ random_pos > uncompressed_size
    /\ ra_steps.exhausted = 1
    /\ ra_steps.descents >= 1
    /\ Len(compressed_sequence) = 2
    /\ ra_char # Leftmost(parsed_grammar, compressed_sequence[1])

====
